---- MODULE Spec2Model ----
(***************************************************************************)
(* Model of scripts/create_sample_capsule.py: create_capsule(output_path)  *)
(* run by several processes against one SQLite file.                       *)
(*                                                                         *)
(* The durable file is `db`; every process has a connection with the       *)
(* transaction state the sqlite3 module keeps for it (legacy isolation     *)
(* level: a transaction is opened implicitly before the first INSERT, DDL  *)
(* outside a transaction is committed on its own).                         *)
(*                                                                         *)
(* Values:                                                                 *)
(*   - byte strings and texts that are hashed are sequences of numbers;    *)
(*   - identifiers compared with digests ('b001', 'genesis', hex digests)  *)
(*     are sequences of character codes;                                   *)
(*   - REAL weights are hundredths (0.85 is 85);                           *)
(*   - a clock reading is a tick of half a second; isoformat() of a        *)
(*     reading is the tick, int(timestamp()) is the whole seconds.         *)
(* Columns that hold only a clock reading which no property reads (edges   *)
(* ts, updated_ts, updated_utc, cached_ts, receipt ts, valid_from) and the *)
(* mock signature / anchor strings are left out of the rows.               *)
(***************************************************************************)
EXTENDS Integers, Sequences, FiniteSets, TLC

\* ------------------------------------------------------------------ bounds
NumWriters == 2      \* processes running create_capsule on the same file
MaxClock == 2        \* clock readings are 0..MaxClock

Procs == 1..NumWriters

\* --------------------------------------------------------------- hashlib
\* hashlib.sha256(bytes): a deterministic digest of the byte string.  The
\* model's digest is a polynomial hash (SHA-256 itself is out of reach of
\* the checker); it depends on every byte and on their order.
RECURSIVE Sha256Acc(_, _)
Sha256Acc(bytes, h) ==
    IF bytes = <<>> THEN h
    ELSE Sha256Acc(Tail(bytes), (h * 31 + Head(bytes) + 1) % 65521)

Sha256(bytes) == Sha256Acc(bytes, 7)

\* .hexdigest(): fixed-width hex string of the digest (64 digits for
\* SHA-256, 8 in the model), most significant digit first.
HexChar(d) == IF d < 10 THEN 48 + d ELSE 87 + d      \* '0'..'9', 'a'..'f'
HexVal(c) == IF c < 58 THEN c - 48 ELSE c - 87

RECURSIVE ToHex(_, _)
ToHex(n, width) ==
    IF width = 0 THEN <<>>
    ELSE Append(ToHex(n \div 16, width - 1), HexChar(n % 16))

hexdigest(d) == ToHex(d, 8)

\* int(hexstr, 16)
RECURSIVE HexToInt(_)
HexToInt(hex) ==
    IF hex = <<>> THEN 0
    ELSE HexToInt(SubSeq(hex, 1, Len(hex) - 1)) * 16 + HexVal(hex[Len(hex)])

\* hexstr[:n]
Prefix(s, n) == SubSeq(s, 1, IF Len(s) < n THEN Len(s) ELSE n)

\* str.encode(): UTF-8, one byte for a code point below 128, two below 2048
RECURSIVE encode(_)
encode(text) ==
    IF text = <<>> THEN <<>>
    ELSE LET c == Head(text) IN
         (IF c < 128 THEN <<c>> ELSE <<192 + (c \div 64), 128 + (c % 64)>>)
            \o encode(Tail(text))

\* ------------------------------------------------------------ module data
\* PAGES: full_text is the text's first twelve characters (code points),
\* entities are (entity_type, entity_text, normalized_value).
PAGES == <<
  [page_no |-> 1, title |-> "MemGlyph Universal Specification Overview",
   full_text |-> <<77, 101, 109, 71, 108, 121, 112, 104, 32, 105, 115, 32>>,
   entities |-> << <<"TECH", "MemGlyph", "MemGlyph">>,
                   <<"TECH", "hybrid search", "hybrid search">> >>],
  [page_no |-> 2, title |-> "LEANN: Lightweight Embedding Strategy",
   full_text |-> <<76, 69, 65, 78, 78, 32, 40, 76, 105, 103, 104, 116>>,
   entities |-> << <<"TECH", "LEANN", "LEANN">>,
                   <<"PERCENT", "98.5%", "0.985">>,
                   <<"TECH", "semantic search", "semantic search">> >>],
  [page_no |-> 3, title |-> "GlyphCase Modality",
   full_text |-> <<65, 32, 71, 108, 121, 112, 104, 67, 97, 115, 101, 32>>,
   entities |-> << <<"TECH", "GlyphCase", "GlyphCase">>,
                   <<"TECH", "SQLite", "SQLite">>,
                   <<"TECH", "SQLAR", "SQLAR">> >>],
  [page_no |-> 4, title |-> "FTS5 Full-Text Search",
   full_text |-> <<77, 101, 109, 71, 108, 121, 112, 104, 32, 117, 115, 101>>,
   entities |-> << <<"TECH", "FTS5", "FTS5">>,
                   <<"TECH", "BM25", "BM25">>,
                   <<"TECH", "SQLite", "SQLite">> >>],
  [page_no |-> 5, title |-> "Entity Extraction and Normalization",
   full_text |-> <<77, 101, 109, 71, 108, 121, 112, 104, 32, 101, 120, 116>>,
   entities |-> << <<"TECH", "LangExtract", "Google LangExtract">>,
                   <<"ORG", "Google", "Google LLC">>,
                   <<"TECH", "Wikidata", "Wikidata">> >>],
  [page_no |-> 6, title |-> "Graph-Based Retrieval",
   full_text |-> <<84, 104, 101, 32, 110, 111, 100, 101, 95, 105, 110, 100>>,
   entities |-> << <<"TECH", "BFS", "breadth-first search">>,
                   <<"TECH", "graph traversal", "graph traversal">> >>],
  [page_no |-> 7, title |-> "Hybrid Retrieval Architecture",
   full_text |-> <<77, 101, 109, 71, 108, 121, 112, 104, 32, 99, 111, 109>>,
   entities |-> << <<"PERCENT", "35%", "0.35">>,
                   <<"PERCENT", "40%", "0.40">>,
                   <<"PERCENT", "25%", "0.25">>,
                   <<"TECH", "hybrid retrieval", "hybrid retrieval">> >>],
  [page_no |-> 8, title |-> "Verification and Provenance",
   full_text |-> <<69, 118, 101, 114, 121, 32, 77, 101, 109, 71, 108, 121>>,
   entities |-> << <<"TECH", "SHA256", "SHA-256">>,
                   <<"TECH", "Merkle", "Merkle tree">>,
                   <<"TECH", "Ed25519", "Ed25519">>,
                   <<"TECH", "Ethereum", "Ethereum">>,
                   <<"TECH", "IPFS", "IPFS">> >>]
>>

\* EDGES: (from_page, to_page, pred, weight in hundredths)
EDGES == <<
  <<1, 2, "cites", 90>>,  <<1, 3, "cites", 85>>,  <<1, 7, "part_of", 100>>,
  <<2, 7, "cites", 80>>,  <<3, 4, "cites", 75>>,  <<4, 7, "cites", 90>>,
  <<5, 7, "cites", 85>>,  <<6, 7, "cites", 80>>,  <<7, 2, "cites", 90>>,
  <<7, 4, "cites", 85>>,  <<8, 1, "part_of", 95>>
>>

DOC_ID == "sha256:memglyph_demo_9352d5a3b7176f62"

\* f"{DOC_ID}#p{page_no}"
Gid(page_no) == <<DOC_ID, page_no>>

\* 'did:key:z6MkhaXgBZDvotDkL5257faiztiGiC2QtKLGpbnnEGta2doK': its first
\* twelve characters
SIGNER == <<100, 105, 100, 58, 107, 101, 121, 58, 122, 54, 77, 107>>

model_id == "gte-small-384"

\* create_mock_png(page_no, title): the same 67 bytes whatever the page
create_mock_png(page_no, title) ==
    <<137, 80, 78, 71, 13, 10, 26, 10, 0, 0, 0, 13, 73, 72, 68, 82,
      0, 0, 0, 1, 0, 0, 0, 1, 8, 2, 0, 0, 0, 144, 119, 83, 222,
      0, 0, 0, 12, 73, 68, 65, 84, 8, 153, 81, 99, 0, 0, 0,
      2, 0, 1, 50, 38, 120, 10, 0, 0, 0, 0, 73, 69, 78, 68,
      174, 66, 96, 130>>

\* mock_vector_384d(text): 384 floats drawn from random.seed(seed), with
\* seed = int(sha256(text).hexdigest()[:8], 16); the blob is a function of
\* the seed, so the model keeps the seed and the dimension.
mock_vector_384d(text) ==
    [dim |-> 384,
     seed |-> HexToInt(Prefix(hexdigest(Sha256(encode(text))), 8))]

\* int(datetime.now(timezone.utc).timestamp()): the whole seconds of a reading
Timestamp(t) == t \div 2

\* f"glyphs/page_{page_no:04d}.mgx.png" and 'ledger/ledger.log'
PageFile(page_no) == <<"glyphs/page.mgx.png", page_no>>
LedgerFile == <<"ledger/ledger.log", 0>>

\* json.dumps({"format": "memglyph-ledger-v1", "created": <iso>}).encode():
\* '{' , the bytes of "v1" standing for the fixed part, the reading, '}'
ledger_content(created) == <<123, 118, 49, 58, 48 + created, 125>>

\* hashlib.sha256(b'checkpoint_demo').hexdigest()
CheckpointDemoRoot ==
    hexdigest(Sha256(<<99, 104, 101, 99, 107, 112, 111, 105, 110, 116, 95,
                       100, 101, 109, 111>>))

\* hashlib.sha256(page["full_text"].encode()).hexdigest()
ContentSha(page) == hexdigest(Sha256(encode(page.full_text)))

\* 'b001' and 'genesis'
B001 == <<98, 48, 48, 49>>
GENESIS == <<103, 101, 110, 101, 115, 105, 115>>

\* ------------------------------------------------------------------ state
VARIABLES
    db,        \* the committed content of the SQLite file
    pc,        \* pc[p]: the statement process p executes next, or raised at
    intxn,     \* intxn[p]: p's connection has an open transaction
    view,      \* view[p]: the file as p's open transaction sees it
    local,     \* local[p]: create_capsule's locals
    result,    \* result[p]: how p's run ended ("" while it has not)
    lock,      \* the process holding SQLite's write lock, 0 if none
    clock      \* the current clock reading

vars == <<db, pc, intxn, view, local, result, lock, clock>>

EmptyTable == [k \in {} |-> 0]

TableNames ==
    {"sqlar", "ledger_blocks", "checkpoints", "keys", "node_index", "edges",
     "meta_index", "meta_fts", "entities", "leann_meta", "leann_vec",
     "leann_neighbors", "glyph_receipts"}

\* a file sqlite3.connect() has just created: no schema, rollback journal
EmptyDb ==
    [journal_mode |-> "delete", schema |-> {},
     sqlar |-> EmptyTable, ledger_blocks |-> EmptyTable,
     checkpoints |-> EmptyTable, keys |-> EmptyTable,
     node_index |-> EmptyTable, edges |-> EmptyTable,
     meta_index |-> EmptyTable, meta_fts |-> EmptyTable,
     entities |-> EmptyTable, leann_meta |-> EmptyTable,
     leann_vec |-> EmptyTable, leann_neighbors |-> EmptyTable,
     glyph_receipts |-> EmptyTable]

\* the loop index over PAGES, ledger_content, the parameters of the
\* last sqlar / edges INSERT (filename, data; from_page, to_page, pred, weight)
\* and the edge list the two loops over the edges go through
NoLocal ==
    [i |-> 0, ledger_content |-> <<>>, filename |-> <<"", 0>>, data |-> <<>>,
     edge |-> <<0, 0, "", 0>>, edges |-> <<>>]

\* ------------------------------------------------------------ SQL statements
\* INSERT OR REPLACE in place of INSERT: the stored row is overwritten
SqlInsert_Replace(tbl, key, row) ==
    [err |-> "",
     tbl |-> [k \in DOMAIN tbl \cup {key} |-> IF k = key THEN row ELSE tbl[k]]]

\* INSERT INTO t ... : a row whose primary key is present raises
\* sqlite3.IntegrityError and stores nothing
SqlInsert(tbl, key, row) ==
    IF key \in DOMAIN tbl
    THEN [err |-> "IntegrityError", tbl |-> tbl]
    ELSE [err |-> "", tbl |-> tbl @@ (key :> row)]

\* INSERT OR IGNORE INTO t ... : a row whose primary key is present is skipped
SqlInsertOrIgnore(tbl, key, row) ==
    IF key \in DOMAIN tbl
    THEN [err |-> "", tbl |-> tbl]
    ELSE [err |-> "", tbl |-> tbl @@ (key :> row)]

\* a for loop of INSERTs over kvs = <<key, row>> pairs: the first exception
\* leaves the loop
RECURSIVE InsertMany(_, _)
InsertMany(tbl, kvs) ==
    IF kvs = <<>> THEN [err |-> "", tbl |-> tbl]
    ELSE LET r == SqlInsert(tbl, Head(kvs)[1], Head(kvs)[2]) IN
         IF r.err # "" THEN r ELSE InsertMany(r.tbl, Tail(kvs))

RECURSIVE InsertOrIgnoreMany(_, _)
InsertOrIgnoreMany(tbl, kvs) ==
    IF kvs = <<>> THEN [err |-> "", tbl |-> tbl]
    ELSE LET r == SqlInsertOrIgnore(tbl, Head(kvs)[1], Head(kvs)[2]) IN
         InsertOrIgnoreMany(r.tbl, Tail(kvs))

\* the statement's outcome on database d: an error, or the database after it
InsertInto(d, t, kvs) ==
    LET r == InsertMany(d[t], kvs) IN
    [err |-> r.err, d |-> [d EXCEPT ![t] = r.tbl]]

\* CREATE TABLE / INDEX / VIEW IF NOT EXISTS
CreateIfNotExists(d, names) == [d EXCEPT !.schema = @ \cup names]

\* ---- the statements of create_capsule, as functions of the database ----
\* INSERT INTO sqlar (name, mode, mtime, sz, data) VALUES (?, 33188, ?, ?, ?)
\* with (filename, mtime, len(data), data)
InsertSqlar(d, name, mtime, data) ==
    InsertInto(d, "sqlar",
        << <<name, [mode |-> 33188, mtime |-> mtime,
                    sz |-> Len(data), data |-> data]>> >>)

\* the entries read from PAGES[i] in place of PAGES[i-1] (wrapping at the end)
LedgerEntries_NextPage ==
    [i \in 1..Len(PAGES) |->
        [op |-> "ADD", gid |-> Gid(i),
         content_sha |-> ContentSha(PAGES[(i % Len(PAGES)) + 1]),
         title |-> PAGES[(i % Len(PAGES)) + 1].title]]

\* the ADD entries of the initial ledger block (json.dumps of the list)
LedgerEntries ==
    [i \in 1..Len(PAGES) |->
        [op |-> "ADD", gid |-> Gid(i),
         content_sha |-> ContentSha(PAGES[i]),
         title |-> PAGES[i].title]]

\* INSERT INTO ledger_blocks ... VALUES ('b001', now, 'genesis', entries, signer, ...)
InsertLedgerBlock(d, ts) ==
    InsertInto(d, "ledger_blocks",
        << <<B001, [ts |-> ts, prev |-> GENESIS,
                    entries |-> LedgerEntries, signer |-> SIGNER]>> >>)

\* INSERT INTO checkpoints (epoch, merkle_root, pages_count, ...)
InsertCheckpoint(d, epoch) ==
    InsertInto(d, "checkpoints",
        << <<epoch, [merkle_root |-> CheckpointDemoRoot,
                     pages_count |-> Len(PAGES)]>> >>)

\* INSERT INTO keys (key_id, did, did_document, valid_from, revoked)
InsertKey(d) ==
    InsertInto(d, "keys", << <<"key001", [did |-> SIGNER, revoked |-> 0]>> >>)

Max(S) == CHOOSE x \in S : \A y \in S : y <= x

\* INSERT INTO node_index (gid, doc_id, page_no) for each page: node_id is
\* AUTOINCREMENT, gid is UNIQUE
RECURSIVE InsertNodesLoop(_, _)
InsertNodesLoop(tbl, pages) ==
    IF pages = <<>> THEN [err |-> "", tbl |-> tbl]
    ELSE LET page == Head(pages)
             gid == Gid(page.page_no)
             node_id == IF DOMAIN tbl = {} THEN 1 ELSE Max(DOMAIN tbl) + 1
         IN IF \E k \in DOMAIN tbl : tbl[k].gid = gid
            THEN [err |-> "IntegrityError", tbl |-> tbl]
            ELSE InsertNodesLoop(
                    tbl @@ (node_id :> [gid |-> gid, doc_id |-> DOC_ID,
                                        page_no |-> page.page_no]),
                    Tail(pages))

InsertNodes(d) ==
    LET r == InsertNodesLoop(d.node_index, PAGES) IN
    [err |-> r.err, d |-> [d EXCEPT !.node_index = r.tbl]]

\* INSERT INTO edges (fromNode, toNode, pred, weight, ts) VALUES (?, ?, ?, ?, ?)
\* PRIMARY KEY(fromNode, toNode, pred); weight is a REAL column, unchecked
EdgeRow(from_page, to_page, pred, weight) ==
    <<<<from_page, to_page, pred>>, [weight |-> weight]>>

InsertEdges(d, edges) ==
    InsertInto(d, "edges",
        [i \in 1..Len(edges) |->
            EdgeRow(edges[i][1], edges[i][2], edges[i][3], edges[i][4])])

\* json.dumps([e[1] for e in page['entities']])
EntityTexts(page) == [i \in 1..Len(page.entities) |-> page.entities[i][2]]

\* INSERT INTO meta_index (...) for each page; the rowid is the next one
InsertMeta(d) ==
    InsertInto(d, "meta_index",
        [i \in 1..Len(PAGES) |->
            <<Gid(PAGES[i].page_no),
              [rowid |-> Cardinality(DOMAIN d.meta_index) + i,
               doc_id |-> DOC_ID, page_no |-> PAGES[i].page_no,
               title |-> PAGES[i].title,
               tags |-> "memglyph demo documentation",
               entities |-> EntityTexts(PAGES[i]),
               full_text |-> PAGES[i].full_text]>>])

\* INSERT INTO meta_fts(rowid, title, tags, entities, full_text)
\*   SELECT rowid, title, tags, entities, full_text FROM meta_index
PopulateFts(d) ==
    LET src == d.meta_index
        rowids == {src[g].rowid : g \in DOMAIN src}
        RowOf(r) == LET g == CHOOSE g \in DOMAIN src : src[g].rowid = r
                    IN [title |-> src[g].title, tags |-> src[g].tags,
                        entities |-> src[g].entities,
                        full_text |-> src[g].full_text]
    IN [err |-> "",
        d |-> [d EXCEPT !.meta_fts =
                 [r \in DOMAIN d.meta_fts \cup rowids |->
                     IF r \in rowids THEN RowOf(r) ELSE d.meta_fts[r]]]]

\* for page in PAGES: for entity_type, entity_text, normalized_value in ...
RECURSIVE EntityRows(_)
EntityRows(pages) ==
    IF pages = <<>> THEN <<>>
    ELSE LET page == Head(pages) IN
         [i \in 1..Len(page.entities) |->
            <<<<Gid(page.page_no), page.entities[i][1], page.entities[i][2]>>,
              [normalized_value |-> page.entities[i][3], confidence |-> 95]>>]
         \o EntityRows(Tail(pages))

InsertEntities(d) == InsertInto(d, "entities", EntityRows(PAGES))

\* the recompute column left to its DEFAULT 1
LeannMetaRow_DefaultRecompute(page) ==
    <<<<Gid(page.page_no), model_id>>,
      [scope |-> "page", doc_id |-> DOC_ID, page_no |-> page.page_no,
       dim |-> 384, quant |-> "float32", content_sha |-> ContentSha(page),
       recompute |-> 1]>>

\* INSERT INTO leann_meta (...) VALUES (?, ?, 'page', ?, ?, 384, 'float32',
\*                                      ?, 'native', 'unicode-nfkc', ?, 0)
LeannMetaRow(page) ==
    <<<<Gid(page.page_no), model_id>>,
      [scope |-> "page", doc_id |-> DOC_ID, page_no |-> page.page_no,
       dim |-> 384, quant |-> "float32", content_sha |-> ContentSha(page),
       recompute |-> 0]>>

InsertLeannMeta(d) ==
    InsertInto(d, "leann_meta",
        [i \in 1..Len(PAGES) |-> LeannMetaRow(PAGES[i])])

\* INSERT INTO leann_vec (gid, model_id, embedding, cached_ts)
LeannVecRow(page) ==
    <<<<Gid(page.page_no), model_id>>,
      [embedding |-> mock_vector_384d(page.full_text)]>>

InsertLeannVec(d) ==
    InsertInto(d, "leann_vec",
        [i \in 1..Len(PAGES) |-> LeannVecRow(PAGES[i])])

\* the hint written with (to_gid, from_gid, ...) in place of
\* (from_gid, to_gid, ...)
InsertNeighbors_Swapped(d, edges) ==
    LET r == InsertOrIgnoreMany(d.leann_neighbors,
                [i \in 1..Len(edges) |->
                    <<<<Gid(edges[i][2]), Gid(edges[i][1])>>,
                      [score |-> edges[i][4],
                       reason |-> <<"graph-", edges[i][3]>>]>>])
    IN [err |-> r.err, d |-> [d EXCEPT !.leann_neighbors = r.tbl]]

\* INSERT OR IGNORE INTO leann_neighbors (gid, neighbor, score, reason)
\* with (from_gid, to_gid, weight, 'graph-' + pred); PRIMARY KEY(gid, neighbor)
InsertNeighbors(d, edges) ==
    LET r == InsertOrIgnoreMany(d.leann_neighbors,
                [i \in 1..Len(edges) |->
                    <<<<Gid(edges[i][1]), Gid(edges[i][2])>>,
                      [score |-> edges[i][4],
                       reason |-> <<"graph-", edges[i][3]>>]>>])
    IN [err |-> r.err, d |-> [d EXCEPT !.leann_neighbors = r.tbl]]

\* INSERT INTO glyph_receipts (gid, content_sha, signer, ..., epoch, merkle_root)
\* with epoch read once before the loop and
\* merkle_root = sha256(b'checkpoint_demo').hexdigest()
InsertReceipts(d, epoch) ==
    InsertInto(d, "glyph_receipts",
        [i \in 1..Len(PAGES) |->
            <<Gid(PAGES[i].page_no),
              [content_sha |-> ContentSha(PAGES[i]), signer |-> SIGNER,
               epoch |-> epoch, merkle_root |-> CheckpointDemoRoot]>>])

\* ------------------------------------------------------- create_capsule
\* the statements of create_capsule in program order
Program ==
    <<"connect", "create_sqlar", "insert_page", "build_ledger_content",
      "insert_ledger_file", "create_ledger_blocks", "insert_ledger_block",
      "create_checkpoints", "insert_checkpoint", "create_keys", "insert_key",
      "create_node_index", "insert_nodes", "create_edges", "insert_edges",
      "create_meta_index", "insert_meta", "create_meta_fts", "populate_fts",
      "create_entities", "insert_entities", "create_leann_meta",
      "insert_leann_meta", "create_leann_vec", "insert_leann_vec",
      "create_leann_neighbors", "insert_neighbors", "create_glyph_receipts",
      "insert_receipts", "create_views", "commit", "done">>

After(label) ==
    Program[(CHOOSE i \in 1..Len(Program) : Program[i] = label) + 1]

\* what each CREATE ... IF NOT EXISTS statement group creates
Creates ==
    "create_sqlar" :> {"sqlar"}
 @@ "create_ledger_blocks" :> {"ledger_blocks", "ledger_ts_idx"}
 @@ "create_checkpoints" :> {"checkpoints"}
 @@ "create_keys" :> {"keys"}
 @@ "create_node_index" :> {"node_index", "node_gid_idx", "node_doc_page_idx"}
 @@ "create_edges" :> {"edges", "edges_from_idx", "edges_to_idx",
                       "edges_pred_idx"}
 @@ "create_meta_index" :> {"meta_index", "meta_doc_page_idx"}
 @@ "create_meta_fts" :> {"meta_fts"}
 @@ "create_entities" :> {"entities", "entities_type_idx",
                          "entities_norm_idx"}
 @@ "create_leann_meta" :> {"leann_meta", "leann_model_idx",
                            "leann_doc_page_idx"}
 @@ "create_leann_vec" :> {"leann_vec"}
 @@ "create_leann_neighbors" :> {"leann_neighbors",
                                 "leann_neighbors_score_idx"}
 @@ "create_glyph_receipts" :> {"glyph_receipts", "glyph_receipts_epoch_idx"}
 @@ "create_views" :> {"pages", "entity_summary"}

\* the database the connection of p reads and writes
Cur(p) == IF intxn[p] THEN view[p] ELSE db

\* the connection is dropped without commit: its transaction is rolled back
Rollback(p) ==
    /\ intxn' = [intxn EXCEPT ![p] = FALSE]
    /\ view' = [view EXCEPT ![p] = EmptyDb]
    /\ lock' = IF lock = p THEN 0 ELSE lock

\* an exception leaves create_capsule at the statement pc[p]: nothing
\* catches it
Raise(p, err, newlocal) ==
    /\ result' = [result EXCEPT ![p] = err]
    /\ local' = [local EXCEPT ![p] = newlocal]
    /\ Rollback(p)
    /\ UNCHANGED <<db, pc, clock>>

Running(p) == result[p] = ""

\* a writing statement whose outcome on Cur(p) is r: outside a transaction
\* the sqlite3 module first issues BEGIN, and the statement takes the write
\* lock; it waits while another connection holds it
ExecWrite(p, label, r, newlocal, next) ==
    /\ Running(p)
    /\ pc[p] = label
    /\ intxn[p] \/ lock = 0
    /\ IF r.err = ""
       THEN /\ view' = [view EXCEPT ![p] = r.d]
            /\ intxn' = [intxn EXCEPT ![p] = TRUE]
            /\ lock' = p
            /\ local' = [local EXCEPT ![p] = newlocal]
            /\ pc' = [pc EXCEPT ![p] = next]
            /\ UNCHANGED <<db, result, clock>>
       ELSE Raise(p, r.err, newlocal)

\* 174-180: sqlite3.connect and the PRAGMAs; journal_mode=WAL is persistent
Connect(p) ==
    /\ Running(p)
    /\ pc[p] = "connect"
    /\ db' = [db EXCEPT !.journal_mode = "wal"]
    /\ pc' = [pc EXCEPT ![p] = After("connect")]
    /\ UNCHANGED <<intxn, view, local, result, lock, clock>>

\* CREATE TABLE / INDEX / VIEW IF NOT EXISTS: inside the open transaction it
\* is part of it; outside one it commits on its own
ExecCreate(p) ==
    /\ Running(p)
    /\ pc[p] \in DOMAIN Creates
    /\ pc' = [pc EXCEPT ![p] = After(pc[p])]
    /\ IF intxn[p]
       THEN /\ view' = [view EXCEPT ![p] = CreateIfNotExists(@, Creates[pc[p]])]
            /\ UNCHANGED <<db, lock>>
       ELSE /\ Creates[pc[p]] \subseteq db.schema \/ lock = 0
            /\ db' = CreateIfNotExists(db, Creates[pc[p]])
            /\ UNCHANGED <<view, lock>>
    /\ UNCHANGED <<intxn, local, result, clock>>

\* 199-207: one iteration of the loop over PAGES
InsertPage(p) ==
    LET page == PAGES[local[p].i + 1]
        png_data == create_mock_png(page.page_no, page.title)
    IN ExecWrite(p, "insert_page",
                 InsertSqlar(Cur(p), PageFile(page.page_no), Timestamp(clock),
                             png_data),
                 [local[p] EXCEPT !.i = @ + 1,
                                  !.filename = PageFile(page.page_no),
                                  !.data = png_data],
                 IF local[p].i + 1 < Len(PAGES)
                 THEN "insert_page" ELSE After("insert_page"))

\* 210-213
BuildLedgerContent(p) ==
    /\ Running(p)
    /\ pc[p] = "build_ledger_content"
    /\ local' = [local EXCEPT ![p].ledger_content = ledger_content(clock)]
    /\ pc' = [pc EXCEPT ![p] = After("build_ledger_content")]
    /\ UNCHANGED <<db, intxn, view, result, lock, clock>>

\* 215-218
InsertLedgerFile(p) ==
    ExecWrite(p, "insert_ledger_file",
              InsertSqlar(Cur(p), LedgerFile, Timestamp(clock),
                          local[p].ledger_content),
              [local[p] EXCEPT !.filename = LedgerFile,
                               !.data = local[p].ledger_content],
              After("insert_ledger_file"))

\* 241-257
InsertLedgerBlockStep(p) ==
    ExecWrite(p, "insert_ledger_block", InsertLedgerBlock(Cur(p), clock),
              local[p], After("insert_ledger_block"))

\* 269-278
InsertCheckpointStep(p) ==
    ExecWrite(p, "insert_checkpoint", InsertCheckpoint(Cur(p), clock),
              local[p], After("insert_checkpoint"))

\* 291-299
InsertKeyStep(p) == ExecWrite(p, "insert_key", InsertKey(Cur(p)), local[p], After("insert_key"))

\* 320-325
InsertNodesStep(p) ==
    ExecWrite(p, "insert_nodes", InsertNodes(Cur(p)), local[p], After("insert_nodes"))

\* 344-348
InsertEdgesStep(p) ==
    ExecWrite(p, "insert_edges", InsertEdges(Cur(p), EDGES), local[p], After("insert_edges"))

\* 372-386
InsertMetaStep(p) == ExecWrite(p, "insert_meta", InsertMeta(Cur(p)), local[p], After("insert_meta"))

\* 397-400
PopulateFtsStep(p) ==
    ExecWrite(p, "populate_fts", PopulateFts(Cur(p)), local[p], After("populate_fts"))

\* 425-431
InsertEntitiesStep(p) ==
    ExecWrite(p, "insert_entities", InsertEntities(Cur(p)), local[p], After("insert_entities"))

\* 462-471
InsertLeannMetaStep(p) ==
    ExecWrite(p, "insert_leann_meta", InsertLeannMeta(Cur(p)), local[p], After("insert_leann_meta"))

\* 485-492
InsertLeannVecStep(p) ==
    ExecWrite(p, "insert_leann_vec", InsertLeannVec(Cur(p)), local[p], After("insert_leann_vec"))

\* 508-514
InsertNeighborsStep(p) ==
    ExecWrite(p, "insert_neighbors", InsertNeighbors(Cur(p), EDGES), local[p], After("insert_neighbors"))

\* 538-557
InsertReceiptsStep(p) ==
    ExecWrite(p, "insert_receipts", InsertReceipts(Cur(p), clock), local[p], After("insert_receipts"))

\* 588-589: conn.commit(); conn.close()
Commit(p) ==
    /\ Running(p)
    /\ pc[p] = "commit"
    /\ db' = IF intxn[p] THEN view[p] ELSE db
    /\ pc' = [pc EXCEPT ![p] = "done"]
    /\ result' = [result EXCEPT ![p] = "ok"]
    /\ Rollback(p)
    /\ UNCHANGED <<local, clock>>

\* a writing statement outside a transaction finds the write lock held and
\* the busy timeout expires: sqlite3.OperationalError (database is locked)
NeedsLock(p) ==
    /\ Running(p)
    /\ ~intxn[p]
    /\ \/ pc[p] \in DOMAIN Creates /\ ~(Creates[pc[p]] \subseteq db.schema)
       \/ pc[p] \in {"insert_page", "insert_ledger_file", "insert_ledger_block",
                     "insert_checkpoint", "insert_key", "insert_nodes",
                     "insert_edges", "insert_meta", "populate_fts",
                     "insert_entities", "insert_leann_meta", "insert_leann_vec",
                     "insert_neighbors", "insert_receipts"}

BusyTimeout(p) ==
    /\ NeedsLock(p)
    /\ lock \notin {0, p}
    /\ Raise(p, "OperationalError", local[p])

\* the process is killed: the file keeps what was committed
Crash(p) ==
    /\ Running(p)
    /\ pc' = [pc EXCEPT ![p] = "done"]
    /\ result' = [result EXCEPT ![p] = "crashed"]
    /\ local' = [local EXCEPT ![p] = NoLocal]
    /\ Rollback(p)
    /\ UNCHANGED <<db, clock>>

\* time passes between two statements
Tick ==
    /\ \E p \in Procs : Running(p)
    /\ clock < MaxClock
    /\ clock' = clock + 1
    /\ UNCHANGED <<db, pc, intxn, view, local, result, lock>>

Init ==
    /\ db = EmptyDb
    /\ pc = [p \in Procs |-> "connect"]
    /\ intxn = [p \in Procs |-> FALSE]
    /\ view = [p \in Procs |-> EmptyDb]
    /\ local = [p \in Procs |-> NoLocal]
    /\ result = [p \in Procs |-> ""]
    /\ lock = 0
    /\ clock = 0

Next ==
    \/ Tick
    \/ \E p \in Procs :
        \/ Connect(p)
        \/ ExecCreate(p)
        \/ InsertPage(p)
        \/ BuildLedgerContent(p)
        \/ InsertLedgerFile(p)
        \/ InsertLedgerBlockStep(p)
        \/ InsertCheckpointStep(p)
        \/ InsertKeyStep(p)
        \/ InsertNodesStep(p)
        \/ InsertEdgesStep(p)
        \/ InsertMetaStep(p)
        \/ PopulateFtsStep(p)
        \/ InsertEntitiesStep(p)
        \/ InsertLeannMetaStep(p)
        \/ InsertLeannVecStep(p)
        \/ InsertNeighborsStep(p)
        \/ InsertReceiptsStep(p)
        \/ Commit(p)
        \/ BusyTimeout(p)
        \/ Crash(p)

Spec == Init /\ [][Next]_vars

\* ------------------------------------------------ the INSERTs on any data
\* The sqlar INSERT (SpecPut) and the edges INSERT (SpecEdges) of
\* create_capsule are run with parameters taken from small sets instead of
\* the rows of PAGES and EDGES: the program from connect to commit, with the
\* other sections left out.
MaxDataLen == 1      \* archive contents are 0..MaxDataLen bytes long
MaxEdges == 2        \* edges in an edge list given to the graph section

OpsNames == {PageFile(1), LedgerFile}
OpsData == {[i \in 1..n |-> 7] : n \in 0..MaxDataLen}
OpsEdgeKeys == {<<1, 2, "cites">>, <<1, 2, "part_of">>}
OpsWeights == {-50, 50, 150}

\* 204-207 with (filename, mtime, len(data), data) of any value
OpPut(p, name, data) ==
    ExecWrite(p, "insert_page",
              InsertSqlar(Cur(p), name, Timestamp(clock), data),
              [local[p] EXCEPT !.filename = name, !.data = data],
              "insert_page")

\* the loop over the archive files ends; the sections up to the commit are
\* left out
OpEndPut(p) ==
    /\ Running(p)
    /\ pc[p] = "insert_page"
    /\ pc' = [pc EXCEPT ![p] = "commit"]
    /\ UNCHANGED <<db, intxn, view, local, result, lock, clock>>

NextPut ==
    \E p \in Procs :
        \/ Connect(p)
        \/ ExecCreate(p)
        \/ \E name \in OpsNames, data \in OpsData : OpPut(p, name, data)
        \/ OpEndPut(p)
        \/ Commit(p)

SpecPut == Init /\ [][NextPut]_vars

\* the sections up to the graph are left out
OpSkipToEdges(p) ==
    /\ Running(p)
    /\ pc[p] = "insert_page"
    /\ pc' = [pc EXCEPT ![p] = "create_edges"]
    /\ UNCHANGED <<db, intxn, view, local, result, lock, clock>>

\* 345-348 with (from_page, to_page, pred, weight) of any value
OpAddEdge(p, key, weight) ==
    ExecWrite(p, "insert_edges",
              InsertEdges(Cur(p), << <<key[1], key[2], key[3], weight>> >>),
              [local[p] EXCEPT !.edge = <<key[1], key[2], key[3], weight>>],
              "insert_edges")

\* the loop over the edges ends; the sections up to the commit are left out
OpEndEdges(p) ==
    /\ Running(p)
    /\ pc[p] = "insert_edges"
    /\ pc' = [pc EXCEPT ![p] = "commit"]
    /\ UNCHANGED <<db, intxn, view, local, result, lock, clock>>

NextEdges ==
    \E p \in Procs :
        \/ Connect(p)
        \/ ExecCreate(p)
        \/ OpSkipToEdges(p)
        \/ \E key \in OpsEdgeKeys, weight \in OpsWeights :
              OpAddEdge(p, key, weight)
        \/ OpEndEdges(p)
        \/ Commit(p)

SpecEdges == Init /\ [][NextEdges]_vars

\* ---- the graph with its neighbor hints, over any edge list
RECURSIVE SeqsUpTo(_, _)
SeqsUpTo(S, n) ==
    IF n = 0 THEN {<<>>}
    ELSE LET shorter == SeqsUpTo(S, n - 1) IN
         shorter \cup {Append(q, x) : q \in shorter, x \in S}

OpsHintEdges ==
    {<<1, 2, "cites", 50>>, <<1, 2, "part_of", 100>>, <<2, 1, "cites", 75>>}
OpsEdgeLists == SeqsUpTo(OpsHintEdges, MaxEdges)

\* the sections between the archive and the graph are left out
OpSkipToNodes(p) ==
    /\ Running(p)
    /\ pc[p] = "insert_page"
    /\ pc' = [pc EXCEPT ![p] = "create_node_index"]
    /\ UNCHANGED <<db, intxn, view, local, result, lock, clock>>

\* 344-348 with any list in place of EDGES
OpInsertEdges(p, edges) ==
    ExecWrite(p, "insert_edges", InsertEdges(Cur(p), edges),
              [local[p] EXCEPT !.edges = edges], After("insert_edges"))

\* the sections between the graph and the neighbor hints are left out
OpSkipToHints(p) ==
    /\ Running(p)
    /\ pc[p] = "create_meta_index"
    /\ pc' = [pc EXCEPT ![p] = "create_leann_neighbors"]
    /\ UNCHANGED <<db, intxn, view, local, result, lock, clock>>

\* 507-514 over the same list
OpInsertNeighbors(p) ==
    ExecWrite(p, "insert_neighbors",
              InsertNeighbors(Cur(p), local[p].edges), local[p],
              After("insert_neighbors"))

\* the receipts and the views are left out
OpSkipToCommit(p) ==
    /\ Running(p)
    /\ pc[p] = "create_glyph_receipts"
    /\ pc' = [pc EXCEPT ![p] = "commit"]
    /\ UNCHANGED <<db, intxn, view, local, result, lock, clock>>

NextHints ==
    \E p \in Procs :
        \/ Connect(p)
        \/ ExecCreate(p)
        \/ OpSkipToNodes(p)
        \/ InsertNodesStep(p)
        \/ \E edges \in OpsEdgeLists : OpInsertEdges(p, edges)
        \/ OpSkipToHints(p)
        \/ OpInsertNeighbors(p)
        \/ OpSkipToCommit(p)
        \/ Commit(p)

SpecHints == Init /\ [][NextHints]_vars

\* ================================================================ claims
\* the committed file and the files the open transactions see
Dbs == {db} \cup {view[p] : p \in {q \in Procs : intxn[q]}}

AllGids == {Gid(PAGES[i].page_no) : i \in 1..Len(PAGES)}

\* ---- C1
AllSchema == UNION {Creates[l] : l \in DOMAIN Creates}

\* the state before any write: no schema and no rows
PreWrite(d) == d.schema = {} /\ \A t \in TableNames : DOMAIN d[t] = {}

ArchivePresent(d) ==
    DOMAIN d.sqlar =
        {PageFile(PAGES[i].page_no) : i \in 1..Len(PAGES)} \cup {LedgerFile}

IndexesPresent(d) ==
    /\ DOMAIN d.meta_index = AllGids
    /\ DOMAIN d.leann_vec = {<<g, model_id>> : g \in AllGids}
    /\ DOMAIN d.leann_meta = {<<g, model_id>> : g \in AllGids}
    /\ DOMAIN d.entities # {}
    /\ DOMAIN d.edges # {}
    /\ DOMAIN d.node_index # {}

LedgerPresent(d) == B001 \in DOMAIN d.ledger_blocks

AllCommitted(d) ==
    /\ d.schema = AllSchema
    /\ ArchivePresent(d) /\ IndexesPresent(d) /\ LedgerPresent(d)

\* C1: a mutation is atomic across archive, indexes and ledger: the committed
\* file is either in the pre-write state (no archive rows, no index rows, no
\* ledger block, no partial schema) or holds all three, and it holds all
\* three once a run has completed.
C1_AtomicMutation ==
    /\ PreWrite(db) \/ AllCommitted(db)
    /\ \A p \in Procs : result[p] = "ok" => AllCommitted(db)

\* ---- C2
\* one level of the merkle tree: pairs are hashed, an odd last node is kept
RECURSIVE MerkleLevel(_)
MerkleLevel(hs) ==
    IF Len(hs) <= 1 THEN hs
    ELSE <<hexdigest(Sha256(hs[1] \o hs[2]))>>
            \o MerkleLevel(SubSeq(hs, 3, Len(hs)))

RECURSIVE MerkleRoot(_)
MerkleRoot(hs) ==
    IF hs = <<>> THEN hexdigest(Sha256(<<>>))
    ELSE IF Len(hs) = 1 THEN hs[1] ELSE MerkleRoot(MerkleLevel(hs))

\* serialize(operations): a digest over the entries' content hashes
SerializeEntries(entries) ==
    MerkleRoot([i \in 1..Len(entries) |-> entries[i].content_sha])

\* hash(prev_block_id || serialize(operations) || timestamp || signer)
BlockHash(prev, entries, ts, signer) ==
    hexdigest(Sha256(prev \o SerializeEntries(entries) \o <<ts>> \o signer))

\* verify_chain(): every block_id is the hash of its block, one block hangs
\* on the genesis sentinel and every other on a stored block
VerifyChain(blocks) ==
    /\ \A id \in DOMAIN blocks :
          /\ id = BlockHash(blocks[id].prev, blocks[id].entries,
                            blocks[id].ts, blocks[id].signer)
          /\ blocks[id].prev = GENESIS \/ blocks[id].prev \in DOMAIN blocks
    /\ Cardinality({id \in DOMAIN blocks : blocks[id].prev = GENESIS}) <= 1

\* C2: the ledger is a hash chain: every stored block's block_id is the hash
\* of its (prev, entries, ts, signer), the first block's prev is the genesis
\* sentinel, later blocks link to their predecessor: verify_chain() is true.
C2_LedgerHashChain == VerifyChain(db.ledger_blocks)

\* ---- C3
\* C3: when several writers run against the same file and none is killed,
\* exactly one append succeeds and every other one fails with StaleHead.
C3_OneAppendOthersStaleHead ==
    (\A p \in Procs : ~Running(p) /\ result[p] # "crashed")
        => /\ Cardinality({p \in Procs : result[p] = "ok"}) = 1
           /\ \A p \in Procs : result[p] \in {"ok", "StaleHead"}

\* ---- C4
\* C4: every stored receipt refers to a stored checkpoint with the receipt's
\* epoch and merkle_root, whatever the clock reads return.
C4_ReceiptHasCheckpoint ==
    \A g \in DOMAIN db.glyph_receipts :
        \E e \in DOMAIN db.checkpoints :
            /\ e = db.glyph_receipts[g].epoch
            /\ db.checkpoints[e].merkle_root = db.glyph_receipts[g].merkle_root

\* ---- C5
\* the content hashes of the current items, leaves sorted by gid
RECURSIVE SortedPages(_)
SortedPages(S) ==
    IF S = {} THEN <<>>
    ELSE LET m == CHOOSE x \in S : \A y \in S : x <= y
         IN <<m>> \o SortedPages(S \ {m})

Leaves(d) ==
    LET pages == SortedPages({g[2] : g \in DOMAIN d.meta_index}) IN
    [i \in 1..Len(pages) |->
        hexdigest(Sha256(encode(d.meta_index[Gid(pages[i])].full_text)))]

\* C5: the stored checkpoint's merkle_root is the merkle root over the content
\* hashes of all current items (leaves sorted by gid) and its item count is
\* the number of current items.
C5_CheckpointIsMerkleRoot ==
    \A e \in DOMAIN db.checkpoints :
        /\ db.checkpoints[e].merkle_root = MerkleRoot(Leaves(db))
        /\ db.checkpoints[e].pages_count = Cardinality(DOMAIN db.meta_index)

\* ---- C6
\* the bytes of an item's ArchiveEntry
ArchiveBytes(d, g) == d.sqlar[PageFile(d.meta_index[g].page_no)].data

EntitiesOf(d, g) ==
    {<<k[2], k[3], d.entities[k].normalized_value>> :
        k \in {x \in DOMAIN d.entities : x[1] = g}}

\* C6: derived records are a function of the archive content: two items
\* with identical archive bytes have identical title, full_text, entities,
\* embedding and content hash.
C6_DerivedFromArchive ==
    \A g1, g2 \in DOMAIN db.meta_index :
        ArchiveBytes(db, g1) = ArchiveBytes(db, g2)
            => /\ db.meta_index[g1].title = db.meta_index[g2].title
               /\ db.meta_index[g1].full_text = db.meta_index[g2].full_text
               /\ EntitiesOf(db, g1) = EntitiesOf(db, g2)
               /\ db.leann_vec[<<g1, model_id>>].embedding
                    = db.leann_vec[<<g2, model_id>>].embedding
               /\ db.leann_meta[<<g1, model_id>>].content_sha
                    = db.leann_meta[<<g2, model_id>>].content_sha

\* ---- C7
\* the path p is about to write is stored with the bytes p writes
WritesSameBytes(p) ==
    /\ Running(p) /\ pc[p] = "insert_page"
    /\ LET page == PAGES[local[p].i + 1] IN
       /\ PageFile(page.page_no) \in DOMAIN Cur(p).sqlar
       /\ Cur(p).sqlar[PageFile(page.page_no)].data
            = create_mock_png(page.page_no, page.title)

\* process p executes its pending sqlar INSERT in this step
PageStep(p) ==
    /\ result'[p] # "crashed"
    /\ result'[p] # "" \/ local'[p].i # local[p].i

\* C7: archive put is idempotent on identical bytes: a write of a path that
\* is present with the same bytes (a second run of create_capsule on the
\* same file) succeeds as a no-op and leaves the archive as it was.
C7_PutIdempotent ==
    [][\A p \in Procs :
          WritesSameBytes(p) /\ PageStep(p)
              => /\ result'[p] = ""
                 /\ view'[p].sqlar = Cur(p).sqlar
                 /\ db'.sqlar = db.sqlar
      ]_vars

\* ---- C8
\* process p executes the sqlar INSERT in this step
PutStep(p) ==
    /\ Running(p) /\ pc[p] = "insert_page" /\ pc'[p] = "insert_page"
    /\ view'[p] # view[p] \/ result'[p] # ""

SizeIsLength(d) ==
    \A n \in DOMAIN d.sqlar : d.sqlar[n].sz = Len(d.sqlar[n].data)

\* C8: the archive never changes bytes in place: the bytes and size stored
\* under a path are those of the first successful write to it, size is the
\* byte length and the stored bytes are the bytes put (empty content too); a
\* later write to a stored path fails and leaves every stored entry as it was.
C8_NoInPlaceMutation ==
    [][/\ \A n \in DOMAIN db.sqlar :
            n \in DOMAIN db'.sqlar /\ db'.sqlar[n] = db.sqlar[n]
       /\ \A p \in Procs :
            intxn[p] /\ intxn'[p]
                => \A n \in DOMAIN view[p].sqlar :
                      /\ n \in DOMAIN view'[p].sqlar
                      /\ view'[p].sqlar[n] = view[p].sqlar[n]
       /\ SizeIsLength(db') /\ \A p \in Procs : SizeIsLength(view'[p])
       /\ \A p \in Procs :
            PutStep(p)
                => IF local'[p].filename \in DOMAIN Cur(p).sqlar
                   THEN result'[p] = "IntegrityError" /\ db' = db
                   ELSE /\ result'[p] = ""
                        /\ view'[p].sqlar[local'[p].filename].data
                              = local'[p].data
      ]_vars

\* a write of differing bytes to a stored path has failed, and a path holds
\* empty content
C8_Witness ==
    /\ \E p \in Procs :
          /\ result[p] = "IntegrityError" /\ pc[p] = "insert_page"
          /\ local[p].filename \in DOMAIN db.sqlar
          /\ db.sqlar[local[p].filename].data # local[p].data
    /\ \E n \in DOMAIN db.sqlar : db.sqlar[n].data = <<>>

\* ---- C9
\* C9: no cached vector is stale: every leann_vec row has its leann_meta row
\* with recompute = 0 and content_sha equal to the SHA-256 of the full_text
\* stored for the gid in meta_index, and the vector is the embedding of that
\* text.
C9_NoStaleVector ==
    \A d \in Dbs :
        \A k \in DOMAIN d.leann_vec :
            /\ k \in DOMAIN d.leann_meta
            /\ d.leann_meta[k].recompute = 0
            /\ k[1] \in DOMAIN d.meta_index
            /\ d.leann_meta[k].content_sha
                  = hexdigest(Sha256(encode(d.meta_index[k[1]].full_text)))
            /\ d.leann_vec[k].embedding
                  = mock_vector_384d(d.meta_index[k[1]].full_text)

\* a run has committed its vectors
C9_Witness ==
    /\ \E p \in Procs : result[p] = "ok"
    /\ DOMAIN db.leann_vec = {<<g, model_id>> : g \in AllGids}

\* ---- C10
\* process p has executed the edges INSERT with local[p].edge
AddedEdge(p) == pc[p] = "insert_edges" /\ local[p].edge # NoLocal.edge

HasNode(d, gid) == \E n \in DOMAIN d.node_index : d.node_index[n].gid = gid
NodeId(d, gid) == CHOOSE n \in DOMAIN d.node_index : d.node_index[n].gid = gid

\* the hint k of d is on the pair of the edge e of d
HintOnPair(d, k, e) ==
    /\ HasNode(d, k[1]) /\ HasNode(d, k[2])
    /\ e[1] = NodeId(d, k[1])
    /\ e[2] = NodeId(d, k[2])

\* the hint k of d is the edge e of d
HintOfEdge(d, k, e) ==
    /\ HintOnPair(d, k, e)
    /\ d.leann_neighbors[k].score = d.edges[e].weight
    /\ d.leann_neighbors[k].reason = <<"graph-", e[3]>>

\* C11: the neighbor hints are reconstructible from the edges: every
\* leann_neighbors row is a stored edge between the node_index ids of its
\* gid and neighbor, with the edge's weight as score and the edge's
\* predicate in its reason, and every committed edge has a hint for its
\* (from, to) pair, also when several predicates link the pair.
C11_HintsFromEdges ==
    /\ \A d \in Dbs :
          \A k \in DOMAIN d.leann_neighbors :
              \E e \in DOMAIN d.edges : HintOfEdge(d, k, e)
    /\ \A e \in DOMAIN db.edges :
          \E k \in DOMAIN db.leann_neighbors : HintOnPair(db, k, e)

\* a run has committed two predicates on the pair (1, 2) and its hint
C11_Witness ==
    /\ \E p \in Procs : result[p] = "ok"
    /\ {<<1, 2, "cites">>, <<1, 2, "part_of">>} \subseteq DOMAIN db.edges
    /\ <<Gid(1), Gid(2)>> \in DOMAIN db.leann_neighbors

\* ---- C12
\* hashlib.sha256(full_text.encode()).hexdigest() of the item g of d
TextSha(d, g) == hexdigest(Sha256(encode(d.meta_index[g].full_text)))

\* the entry of the block agrees with the other tables of d on its gid
EntryAgrees(d, entry) ==
    LET g == entry.gid IN
    /\ entry.op = "ADD"
    /\ g \in DOMAIN d.meta_index
    /\ g \in DOMAIN d.glyph_receipts
    /\ <<g, model_id>> \in DOMAIN d.leann_meta
    /\ entry.content_sha = TextSha(d, g)
    /\ d.glyph_receipts[g].content_sha = TextSha(d, g)
    /\ d.leann_meta[<<g, model_id>>].content_sha = TextSha(d, g)
    /\ entry.title = d.meta_index[g].title

\* C12: after create_capsule the provenance tables agree on each item: the
\* ADD entries of the ledger block are one per gid of meta_index, none
\* missing and none extra; the content_sha of the entry, of the
\* glyph_receipts row and of the leann_meta row of a gid are the SHA-256 of
\* its full_text; the entry's title is the item's title; the block's signer
\* is the did of a key that is not revoked.
C12_ProvenanceAgrees ==
    \A b \in DOMAIN db.ledger_blocks :
        LET entries == db.ledger_blocks[b].entries IN
        /\ {entries[i].gid : i \in 1..Len(entries)} = DOMAIN db.meta_index
        /\ \A i, j \in 1..Len(entries) :
              entries[i].gid = entries[j].gid => i = j
        /\ \A i \in 1..Len(entries) : EntryAgrees(db, entries[i])
        /\ \E k \in DOMAIN db.keys :
              /\ db.keys[k].did = db.ledger_blocks[b].signer
              /\ db.keys[k].revoked = 0

\* a run has committed the ledger block, the items and their receipts
C12_Witness ==
    /\ \E p \in Procs : result[p] = "ok"
    /\ B001 \in DOMAIN db.ledger_blocks
    /\ Cardinality(DOMAIN db.meta_index) = Len(PAGES)
    /\ DOMAIN db.glyph_receipts = DOMAIN db.meta_index

====
